---- MODULE Spec2Model ----
(***************************************************************************)
(* Model of streamlit_app.py: the expense form of a Streamlit application  *)
(* backed by three Supabase tables (accounts, expenses, cash_flow).        *)
(*                                                                         *)
(* Every browser session runs the script main() from top to bottom on each *)
(* widget event.  A session is modelled by its position (pc) inside the    *)
(* run that a click started, together with the locals of that run.  One    *)
(* action is one store call of the run with the local computation that     *)
(* follows it, so that the runs of concurrent sessions interleave at the   *)
(* store calls, as they do against the shared database.                    *)
(*                                                                         *)
(* Money: prices are counted in thousandths and are multiples of 1/8, all  *)
(* exactly representable as binary floats, so that price * quantity is     *)
(* exact and round(x, 2) meets true ties; amounts and balances are counted *)
(* in hundredths.  Rounding error of the float subtraction and addition on *)
(* balances is not modelled.                                               *)
(*                                                                         *)
(* Not modelled: payment_date and type of a record (written, never read),  *)
(* st.session_state.username (shown, never read for a decision), the       *)
(* search box of the undo list, and failures of the read-only queries that *)
(* only render the page.                                                   *)
(***************************************************************************)
EXTENDS Integers, FiniteSets, Sequences, Bags, TLC

\* ------------------------------------------------------------------ bounds
MaxEighths == 1         \* prices are 0/8 .. MaxEighths/8
MaxQuantity == 1        \* quantities are 1 .. MaxQuantity
MaxRuns == 3            \* Submit and Undo runs started, all sessions together
MaxFaults == 1          \* store calls that fail, all sessions together
FormMaxEighths == 8     \* the same two, for the specification of the form
FormMaxQuantity == 3
MaxChanges == 1         \* changes made to table accounts in the database

\* --------------------------------------------------------------- constants
ListLimit == 20         \* rows listed for undo

CATEGORY_OPTIONS ==
    [Food |-> {"Breakfast", "Lunch", "Dinner", "Snacks"},
     Transportation |-> {"Bus", "Train", "Flight", "Ship", "Bike", "Cabs"},
     Utilities |-> {"Electricity", "Internet"},
     Health |-> {"Medicine", "Hospital"},
     Entertainment |-> {"Theatre", "Concerts", "Subscriptions"},
     Others |-> {"Gifts", "Bank Charges", "Insurance"}]

\* Two browser sessions share the database.
Sessions == {1, 2}
\* Billing dates: today, which the date input shows by default, and another.
Today == 1
Dates == {1, 2}

\* The rows of table accounts when the application starts.
AccountIds == {1, 2}
InitAccounts ==
    [a \in AccountIds |->
        IF a = 1 THEN [id |-> 1, account_name |-> "Cash", balance |-> 30]
                 ELSE [id |-> 2, account_name |-> "Bank", balance |-> 12]]

\* the names an account can be given in the database
AccountNames == {"Cash", "Bank", "Wallet"}

\* hashlib.sha256(password.encode()).hexdigest(): the digests of different
\* passwords are different
hash_password(password) == <<"sha256", password>>

USER_CREDENTIALS ==
    [nadin |-> hash_password("Nadin@2005"),
     admin |-> hash_password("adminpass")]

\* what is typed into the two boxes of the login page
Usernames == {"nadin", "admin", "guest"}
Passwords == {"Nadin@2005", "adminpass", "secret"}

Null == [none |-> TRUE]
NoTxn == <<0, 0>>

VARIABLES
    accounts,      \* table accounts: id -> row, for the ids that have a row
    expenses,      \* table expenses: set of rows, id is the primary key
    cash_flow,     \* table cash_flow: bag of rows
    logged_in,     \* st.session_state.logged_in, per session
    submitted,     \* st.session_state.submitted, per session
    pc,            \* position of the session's current script run
    form_data,     \* locals of the run
    txn_id,
    new_balance,
    row,
    acc,
    credentials,   \* username and password of a run of login()
    errors,        \* list returned by submit_expense
    notice,        \* st.success / st.error shown by the run
    runs,          \* history: runs started so far
    faults,        \* history: store calls that failed so far
    pre,           \* history of the sequential specifications: the three
                   \* tables when the current run started
    clean,         \* history of the sequential specifications: no run has
                   \* ended with an error so far
    pending,       \* history of the sequential specifications: Submits
                   \* saved and not yet followed by a completed Undo
    changes,       \* history: changes made to table accounts outside the
                   \* application so far
    debited,       \* history of the sequential specifications: expense id ->
                   \* id of the account that the Submit of that row debited
    writes,        \* history: the tables that the session's current run of
                   \* submit_expense has written, in the order of the writes
    submits        \* history of the sequential specifications: per session,
                   \* the Submit runs started and those that returned success

vars == <<accounts, expenses, cash_flow, submitted, pc, form_data, txn_id,
          new_balance, row, acc, errors, notice, runs, faults, pre, clean,
          pending, changes, debited, writes, logged_in, credentials,
          submits>>

tables == <<accounts, expenses, cash_flow>>

\* ------------------------------------------------------------ pure helpers

\* round(x, 2) of Python on a float that holds x thousandths exactly:
\* correctly rounded, ties to the even hundredth.
Round2(x) ==
    LET c == x \div 10
        r == x % 10
    IN  IF r < 5 THEN c
        ELSE IF r > 5 THEN c + 1
        ELSE IF c % 2 = 0 THEN c ELSE c + 1

Amount(price, quantity) == Round2(price * quantity)

\* f"EXP-{billing_date:%Y%m%d}-{count + 1:03d}": injective in (date, number)
TxnId(billing_date, count) == <<billing_date, count + 1>>

\* order of the id strings: date first, then the number
IdLess(a, b) == a[1] < b[1] \/ (a[1] = b[1] /\ a[2] < b[2])

CountByBillingDate(d) == Cardinality({e \in expenses : e.billing_date = d})

\* select * from expenses order by id desc limit 20
Listing ==
    {e \in expenses :
        Cardinality({o \in expenses : IdLess(e.id, o.id)}) < ListLimit}

DeleteCashFlow(id) ==
    LET keep == {c \in DOMAIN cash_flow : c.transaction_id # id}
    IN  [c \in keep |-> cash_flow[c]]

\* what the widgets of render_expense_form let a user enter: the
\* subcategory box offers the subcategories of the main category, the price
\* is at least 0 and the quantity at least 1
FormInputs(dates, eighths, maxq, cats) ==
    UNION {[billing_date : dates,
            description : {"", "d"},
            main_category : {m},
            subcategory : CATEGORY_OPTIONS[m],
            account : AccountIds,
            price : {125 * i : i \in 0 .. eighths},
            quantity : 1 .. maxq] : m \in cats}

FormData(i) ==
    [billing_date |-> i.billing_date,
     main_category |-> i.main_category,
     subcategory |-> i.subcategory,
     description |-> i.description,
     selected_account |-> accounts[i.account],
     price |-> i.price,
     quantity |-> i.quantity,
     amount |-> Amount(i.price, i.quantity)]

\* mutant: the price is checked before the description
ValidatePriceFirst(f) ==
    IF f.price <= 0 THEN <<"Price must be greater than 0.">>
    ELSE IF f.description = "" THEN <<"Description is required.">>
    ELSE IF f.quantity <= 0 THEN <<"Quantity must be at least 1.">>
    ELSE << >>

\* the if / elif chain that opens submit_expense
Validate(f) ==
    IF f.description = "" THEN <<"Description is required.">>
    ELSE IF f.price <= 0 THEN <<"Price must be greater than 0.">>
    ELSE IF f.quantity <= 0 THEN <<"Quantity must be at least 1.">>
    ELSE << >>

\* mutant: the balance check is missing
InsufficientBalanceNever(nb) == FALSE

\* if new_balance < 0
InsufficientBalance(nb) == nb < 0

\* update accounts set balance = b where id = a; changes no row when there
\* is none with this id
SetBalance(a, b) ==
    IF a \in DOMAIN accounts THEN [accounts EXCEPT ![a].balance = b]
    ELSE accounts

\* ------------------------------------------------------------------ state

\* The state in which no run has happened yet and the flag logged_in of
\* every session is li.
Started(li) ==
    /\ logged_in = [s \in Sessions |-> li]
    /\ credentials = [s \in Sessions |-> Null]
    /\ submits = [s \in Sessions |-> [started |-> 0, saved |-> 0]]
    /\ accounts = InitAccounts
    /\ expenses = {}
    /\ cash_flow = EmptyBag
    /\ submitted = [s \in Sessions |-> FALSE]
    /\ pc = [s \in Sessions |-> "idle"]
    /\ form_data = [s \in Sessions |-> Null]
    /\ txn_id = [s \in Sessions |-> NoTxn]
    /\ new_balance = [s \in Sessions |-> 0]
    /\ row = [s \in Sessions |-> Null]
    /\ acc = [s \in Sessions |-> Null]
    /\ errors = [s \in Sessions |-> << >>]
    /\ notice = [s \in Sessions |-> "none"]
    /\ runs = 0
    /\ faults = 0
    /\ pre = Null
    /\ clean = TRUE
    /\ pending = 0
    /\ changes = 0
    /\ debited = << >>
    /\ writes = [s \in Sessions |-> << >>]

\* The application starts: main() sets logged_in to False in every session.
Init == Started(FALSE)

\* the run ends with these errors returned by submit_expense
Return(s, errs) ==
    /\ pc' = [pc EXCEPT ![s] = "done"]
    /\ errors' = [errors EXCEPT ![s] = errs]

\* the run ends with this message on the page
Show(s, msg) ==
    /\ pc' = [pc EXCEPT ![s] = "done"]
    /\ notice' = [notice EXCEPT ![s] = msg]

Goto(s, label) == pc' = [pc EXCEPT ![s] = label]

\* a run of the form page starts; main() returns before the form and the
\* undo list when the session is not logged in or table accounts is empty
\* mutant: the form is reached without the login check
StartUngated(s) ==
    /\ pc[s] = "idle"
    /\ DOMAIN accounts # {}
    /\ runs < MaxRuns
    /\ runs' = runs + 1

Start(s) ==
    /\ pc[s] = "idle"
    /\ logged_in[s]
    /\ DOMAIN accounts # {}
    /\ runs < MaxRuns
    /\ runs' = runs + 1

\* a store call fails: it raises, or answers without data, and writes nothing
Fails == faults < MaxFaults /\ faults' = faults + 1
Succeeds == UNCHANGED faults

\* ------------------------------------------------------------------ login

\* username in USER_CREDENTIALS and
\* USER_CREDENTIALS[username] == hash_password(password)
Authenticated(username, password) ==
    /\ username \in DOMAIN USER_CREDENTIALS
    /\ USER_CREDENTIALS[username] = hash_password(password)

\* The Login button of the login page, which main() shows to a session that
\* is not logged in: the run touches no table and ends in st.stop() or with
\* the error message.
Login(s, username, password) ==
    /\ pc[s] = "idle"
    /\ ~logged_in[s]
    /\ credentials' = [credentials EXCEPT
           ![s] = [username |-> username, password |-> password]]
    /\ IF Authenticated(username, password)
       THEN /\ logged_in' = [logged_in EXCEPT ![s] = TRUE]
            /\ Show(s, "Login successful!")
       ELSE /\ Show(s, "Invalid username or password")
            /\ UNCHANGED logged_in
    /\ UNCHANGED <<tables, submitted, form_data, txn_id, new_balance, row,
                   acc, errors, runs, faults, changes>>

\* The Logout button of the sidebar: the flag is cleared and the page is
\* started over before fetch_accounts is reached.
Logout(s) ==
    /\ pc[s] = "idle"
    /\ logged_in[s]
    /\ logged_in' = [logged_in EXCEPT ![s] = FALSE]
    /\ UNCHANGED <<tables, submitted, pc, form_data, txn_id, new_balance, row,
                   acc, credentials, errors, notice, runs, faults, changes>>

\* ----------------------------------------------------------------- Submit

\* mutant: the Submit button is not disabled after a success
SubmitClickEnabled(s, i) ==
    /\ Start(s)
    /\ i.account \in DOMAIN accounts
    /\ LET f == FormData(i)
       IN  /\ form_data' = [form_data EXCEPT ![s] = f]
           /\ IF Validate(f) # << >>
              THEN Return(s, Validate(f))
              ELSE Goto(s, "count") /\ UNCHANGED errors
    /\ UNCHANGED <<tables, submitted, txn_id, new_balance, row, acc, notice,
                   faults, changes, logged_in, credentials>>

\* The Submit button is pressed: main() runs fetch_accounts, builds the
\* form and enters submit_expense, which validates the form.
SubmitClick(s, i) ==
    /\ Start(s)
    /\ ~submitted[s]
    /\ i.account \in DOMAIN accounts
    /\ LET f == FormData(i)
       IN  /\ form_data' = [form_data EXCEPT ![s] = f]
           /\ IF Validate(f) # << >>
              THEN Return(s, Validate(f))
              ELSE Goto(s, "count") /\ UNCHANGED errors
    /\ UNCHANGED <<tables, submitted, txn_id, new_balance, row, acc, notice,
                   faults, changes,
                   logged_in, credentials>>

\* The count query, the id built from it and the balance check.
SubmitCount(s) ==
    /\ pc[s] = "count"
    /\ \/ LET f == form_data[s]
              nb == f.selected_account.balance - f.amount
          IN  /\ Succeeds
              /\ txn_id' = [txn_id EXCEPT ![s] =
                     TxnId(f.billing_date, CountByBillingDate(f.billing_date))]
              /\ new_balance' = [new_balance EXCEPT ![s] = nb]
              /\ IF InsufficientBalance(nb)
                 THEN Return(s, <<"Insufficient balance in the selected account.">>)
                 ELSE Goto(s, "update") /\ UNCHANGED errors
       \/ /\ Fails
          /\ Return(s, <<"Unexpected error occurred">>)
          /\ UNCHANGED <<txn_id, new_balance>>
    /\ UNCHANGED <<tables, submitted, form_data, row, acc, notice, runs,
                   changes,
                   logged_in, credentials>>

\* mutant: the answer of the update is not checked
SubmitUpdateUnchecked(s) ==
    /\ pc[s] = "update"
    /\ \/ /\ Succeeds
          /\ accounts' = SetBalance(form_data[s].selected_account.id,
                                    new_balance[s])
       \/ /\ Fails
          /\ UNCHANGED accounts
    /\ Goto(s, "insert")
    /\ UNCHANGED <<expenses, cash_flow, submitted, form_data, txn_id,
                   new_balance, row, acc, errors, notice, runs, changes,
                   logged_in, credentials>>

\* update accounts set balance = new_balance where id = selected id
SubmitUpdate(s) ==
    /\ pc[s] = "update"
    /\ \/ /\ Succeeds
          /\ accounts' = SetBalance(form_data[s].selected_account.id,
                                    new_balance[s])
          /\ Goto(s, "insert")
          /\ UNCHANGED errors
       \/ /\ Fails
          /\ \E e \in {"Failed to update account balance.",
                       "Unexpected error occurred"} : Return(s, <<e>>)
          /\ UNCHANGED accounts
    /\ UNCHANGED <<expenses, cash_flow, submitted, form_data, txn_id,
                   new_balance, row, acc, notice, runs, changes,
                   logged_in, credentials>>

ExpenseRecord(s) ==
    LET f == form_data[s]
    IN  [id |-> txn_id[s],
         billing_date |-> f.billing_date,
         main_category |-> f.main_category,
         subcategory |-> f.subcategory,
         description |-> f.description,
         from_account |-> f.selected_account.account_name,
         price |-> f.price,
         quantity |-> f.quantity,
         amount |-> f.amount]

\* the primary key of table expenses
DuplicateId(id) == \E e \in expenses : e.id = id

\* insert into expenses; a row with this id makes the insert raise
SubmitInsert(s) ==
    /\ pc[s] = "insert"
    /\ \/ /\ ~DuplicateId(txn_id[s])
          /\ Succeeds
          /\ expenses' = expenses \cup {ExpenseRecord(s)}
          /\ Goto(s, "cash_flow")
          /\ UNCHANGED errors
       \/ /\ DuplicateId(txn_id[s])
          /\ Succeeds
          /\ Return(s, <<"Unexpected error occurred">>)
          /\ UNCHANGED expenses
       \/ /\ Fails
          /\ \E e \in {"Insert failed.", "Unexpected error occurred"} :
                Return(s, <<e>>)
          /\ UNCHANGED expenses
    /\ UNCHANGED <<accounts, cash_flow, submitted, form_data, txn_id,
                   new_balance, row, acc, notice, runs, changes,
                   logged_in, credentials>>

CashFlowRecord(s) ==
    LET f == form_data[s]
    IN  [transaction_id |-> txn_id[s],
         type |-> "Debit",
         account |-> f.selected_account.account_name,
         transaction_amount |-> f.amount,
         updated_balance |-> new_balance[s],
         billing_date |-> f.billing_date]

\* log_cash_flow, then the success branch of submit_expense
SubmitCashFlow(s) ==
    /\ pc[s] = "cash_flow"
    /\ \/ /\ Succeeds
          /\ cash_flow' = cash_flow (+) SetToBag({CashFlowRecord(s)})
          /\ submitted' = [submitted EXCEPT ![s] = TRUE]
          /\ Show(s, "Expense saved!")
          /\ UNCHANGED errors
       \/ /\ Fails
          /\ \E e \in {"Failed to log cash flow.", "Error logging cash flow"} :
                Return(s, <<e>>)
          /\ UNCHANGED <<cash_flow, submitted, notice>>
    /\ UNCHANGED <<accounts, expenses, form_data, txn_id, new_balance, row,
                   acc, runs, changes,
                   logged_in, credentials>>

\* ------------------------------------------------------------------- Undo

\* A Confirm Undo button is pressed: the run lists the expenses again and
\* reaches the button of a row that is still listed.
UndoClick(s, r) ==
    /\ Start(s)
    /\ r \in Listing
    /\ row' = [row EXCEPT ![s] = r]
    /\ Goto(s, "undo_expense")
    /\ UNCHANGED <<tables, submitted, form_data, txn_id, new_balance, acc,
                   errors, notice, faults, changes,
                   logged_in, credentials>>

UndoDeleteExpense(s) ==
    /\ pc[s] = "undo_expense"
    /\ \/ /\ Succeeds
          /\ expenses' = {e \in expenses : e.id # row[s].id}
          /\ Goto(s, "undo_cash_flow")
          /\ UNCHANGED notice
       \/ /\ Fails
          /\ Show(s, "Undo failed")
          /\ UNCHANGED expenses
    /\ UNCHANGED <<accounts, cash_flow, submitted, form_data, txn_id,
                   new_balance, row, acc, errors, runs, changes,
                   logged_in, credentials>>

UndoDeleteCashFlow(s) ==
    /\ pc[s] = "undo_cash_flow"
    /\ \/ /\ Succeeds
          /\ cash_flow' = DeleteCashFlow(row[s].id)
          /\ Goto(s, "undo_lookup")
          /\ UNCHANGED notice
       \/ /\ Fails
          /\ Show(s, "Undo failed")
          /\ UNCHANGED cash_flow
    /\ UNCHANGED <<accounts, expenses, submitted, form_data, txn_id,
                   new_balance, row, acc, errors, runs, changes,
                   logged_in, credentials>>

\* mutant: the amount is not added back
RestoredNothing(balance, amount) == balance

\* new_balance = float(acc["balance"]) + amount
Restored(balance, amount) == balance + amount

\* select id, balance from accounts where account_name = from_account
AccountsNamed(name) ==
    {a \in DOMAIN accounts : accounts[a].account_name = name}

UndoLookup(s) ==
    /\ pc[s] = "undo_lookup"
    /\ \/ /\ Succeeds
          /\ AccountsNamed(row[s].from_account) = {}
          /\ Show(s, "Account not found")
          /\ UNCHANGED acc
       \/ /\ Succeeds
          /\ \E a \in AccountsNamed(row[s].from_account) :
                acc' = [acc EXCEPT ![s] =
                           [id |-> a, balance |-> accounts[a].balance]]
          /\ Goto(s, "undo_update")
          /\ UNCHANGED notice
       \/ /\ Fails
          /\ Show(s, "Undo failed")
          /\ UNCHANGED acc
    /\ UNCHANGED <<tables, submitted, form_data, txn_id, new_balance, row,
                   errors, runs, changes,
                   logged_in, credentials>>

UndoUpdate(s) ==
    /\ pc[s] = "undo_update"
    /\ \/ /\ Succeeds
          /\ accounts' = SetBalance(acc[s].id,
                                    Restored(acc[s].balance, row[s].amount))
          /\ Show(s, "Undone transaction")
       \/ /\ Fails
          /\ Show(s, "Undo failed")
          /\ UNCHANGED accounts
    /\ UNCHANGED <<expenses, cash_flow, submitted, form_data, txn_id,
                   new_balance, row, acc, errors, runs, changes,
                   logged_in, credentials>>

\* The run ends (an error list is rendered, or st.rerun() starts the page
\* over): its locals are gone.
Finish(s) ==
    /\ pc[s] = "done"
    /\ pc' = [pc EXCEPT ![s] = "idle"]
    /\ form_data' = [form_data EXCEPT ![s] = Null]
    /\ txn_id' = [txn_id EXCEPT ![s] = NoTxn]
    /\ new_balance' = [new_balance EXCEPT ![s] = 0]
    /\ row' = [row EXCEPT ![s] = Null]
    /\ acc' = [acc EXCEPT ![s] = Null]
    /\ errors' = [errors EXCEPT ![s] = << >>]
    /\ notice' = [notice EXCEPT ![s] = "none"]
    /\ credentials' = [credentials EXCEPT ![s] = Null]
    /\ UNCHANGED <<tables, submitted, runs, faults, changes, logged_in>>

\* ------------------------------------------- changes made in the database

\* Table accounts is set up and maintained in the database, outside the
\* application: a row is removed,
AdminRemove(a) ==
    /\ changes < MaxChanges
    /\ a \in DOMAIN accounts
    /\ accounts' = [b \in DOMAIN accounts \ {a} |-> accounts[b]]
    /\ changes' = changes + 1
    /\ UNCHANGED <<expenses, cash_flow, submitted, pc, form_data, txn_id,
                   new_balance, row, acc, errors, notice, runs, faults,
                   logged_in, credentials>>

\* or an account is given a name that no account has.
AdminRename(a, name) ==
    /\ changes < MaxChanges
    /\ a \in DOMAIN accounts
    /\ AccountsNamed(name) = {}
    /\ accounts' = [accounts EXCEPT ![a].account_name = name]
    /\ changes' = changes + 1
    /\ UNCHANGED <<expenses, cash_flow, submitted, pc, form_data, txn_id,
                   new_balance, row, acc, errors, notice, runs, faults,
                   logged_in, credentials>>

\* --------------------------------------------------------- specifications

\* the forms of the two-session specifications keep the default category
DefaultForms(dates) ==
    {i \in FormInputs(dates, MaxEighths, MaxQuantity, {"Food"}) :
        i.subcategory = "Breakfast"}

\* The history that the sequential specifications keep.
Tables ==
    [accounts |-> accounts, expenses |-> expenses, cash_flow |-> cash_flow]

Failed(s) ==
    \/ errors[s] # << >>
    \/ notice[s] \in {"Undo failed", "Account not found"}

Saved(s) == pc[s] = "done" /\ notice[s] = "Expense saved!"
Undone(s) == pc[s] = "done" /\ notice[s] = "Undone transaction"

\* The journal of the writes of submit_expense, kept by every
\* specification: what the step of session s wrote.
Written(s) ==
    IF pc'[s] = pc[s] THEN << >>
    ELSE IF pc[s] = "update" /\ faults' = faults THEN <<"accounts">>
    ELSE IF pc[s] = "insert" /\ expenses' # expenses THEN <<"expenses">>
    ELSE IF pc[s] = "cash_flow" /\ cash_flow' # cash_flow THEN <<"cash_flow">>
    ELSE << >>

Journal ==
    writes' = [s \in Sessions |->
                  IF pc'[s] = "idle" THEN << >> ELSE writes[s] \o Written(s)]

\* the sessions whose Submit inserts its expense row in this step
Inserting == {s \in Sessions : pc[s] = "insert" /\ pc'[s] = "cash_flow"}

\* the Submit runs of a session: started, and returned with success
Counted(s) ==
    [started |-> submits[s].started
                   + (IF pc[s] = "idle" /\ form_data'[s] # Null THEN 1 ELSE 0),
     saved |-> submits[s].saved
                   + (IF ~Saved(s) /\ Saved(s)' THEN 1 ELSE 0)]

Track(started) ==
    /\ Journal
    /\ submits' = [s \in Sessions |-> Counted(s)]
    /\ pre' = IF started THEN Tables ELSE pre
    /\ debited' =
          IF Inserting = {} THEN debited
          ELSE LET s == CHOOSE s \in Inserting : TRUE
               IN  (txn_id[s] :> form_data[s].selected_account.id) @@ debited
    /\ clean' = (clean /\ \A s \in Sessions : ~Failed(s)')
    /\ pending' = pending
                   + Cardinality({s \in Sessions : Saved(s)' /\ ~Saved(s)})
                   - Cardinality({s \in Sessions : Undone(s)' /\ ~Undone(s)})

NoTrack == UNCHANGED <<pre, clean, pending, debited, submits>> /\ Journal

\* The state from which the specifications of the form page start: every
\* session has logged in (SpecLogin starts before that).
InitLoggedIn == Started(TRUE)

\* Spec: the sessions run concurrently against the one database; every form
\* keeps the default billing date and has a description (its price may
\* still be 0, which the validation rejects).
DescribedForms == {i \in DefaultForms({Today}) : i.description # ""}

Next ==
    \E s \in Sessions :
        \/ (\E i \in DescribedForms : SubmitClick(s, i)) /\ NoTrack
        \/ SubmitCount(s) /\ NoTrack
        \/ SubmitUpdate(s) /\ NoTrack
        \/ SubmitInsert(s) /\ NoTrack
        \/ SubmitCashFlow(s) /\ NoTrack
        \/ (\E r \in expenses : UndoClick(s, r)) /\ NoTrack
        \/ UndoDeleteExpense(s) /\ NoTrack
        \/ UndoDeleteCashFlow(s) /\ NoTrack
        \/ UndoLookup(s) /\ NoTrack
        \/ UndoUpdate(s) /\ NoTrack
        \/ Finish(s) /\ NoTrack

Spec == InitLoggedIn /\ [][Next]_vars

\* SpecSeq: the same runs, one at a time (a click waits for the run of the
\* other session to end), over both billing dates.
Alone(s) == \A t \in Sessions \ {s} : pc[t] = "idle"

NextSeq ==
    \E s \in Sessions :
        \/ /\ Alone(s)
           /\ \E i \in DefaultForms(Dates) : SubmitClick(s, i)
           /\ Track(TRUE)
        \/ SubmitCount(s) /\ Track(FALSE)
        \/ SubmitUpdate(s) /\ Track(FALSE)
        \/ SubmitInsert(s) /\ Track(FALSE)
        \/ SubmitCashFlow(s) /\ Track(FALSE)
        \/ /\ Alone(s)
           /\ \E r \in expenses : UndoClick(s, r)
           /\ Track(TRUE)
        \/ UndoDeleteExpense(s) /\ Track(FALSE)
        \/ UndoDeleteCashFlow(s) /\ Track(FALSE)
        \/ UndoLookup(s) /\ Track(FALSE)
        \/ UndoUpdate(s) /\ Track(FALSE)
        \/ Finish(s) /\ Track(FALSE)

SpecSeq == InitLoggedIn /\ [][NextSeq]_vars

\* SpecAdmin: the runs one at a time, with changes made to table accounts in
\* the database between them; every form keeps the default billing date.
Idle == \A s \in Sessions : pc[s] = "idle"

NextAdmin ==
    \/ \E s \in Sessions :
          \/ /\ Alone(s)
             /\ \E i \in DefaultForms({Today}) : SubmitClick(s, i)
             /\ Track(TRUE)
          \/ SubmitCount(s) /\ Track(FALSE)
          \/ SubmitUpdate(s) /\ Track(FALSE)
          \/ SubmitInsert(s) /\ Track(FALSE)
          \/ SubmitCashFlow(s) /\ Track(FALSE)
          \/ /\ Alone(s)
             /\ \E r \in expenses : UndoClick(s, r)
             /\ Track(TRUE)
          \/ UndoDeleteExpense(s) /\ Track(FALSE)
          \/ UndoDeleteCashFlow(s) /\ Track(FALSE)
          \/ UndoLookup(s) /\ Track(FALSE)
          \/ UndoUpdate(s) /\ Track(FALSE)
          \/ Finish(s) /\ Track(FALSE)
    \/ Idle /\ (\E a \in AccountIds : AdminRemove(a)) /\ NoTrack
    \/ /\ Idle
       /\ \E a \in AccountIds, name \in AccountNames : AdminRename(a, name)
       /\ NoTrack

SpecAdmin == InitLoggedIn /\ [][NextAdmin]_vars

\* SpecLogin: the application from its start: the sessions log in and out
\* and run the form page, one run at a time; every form keeps the default
\* billing date.
NextLogin ==
    \E s \in Sessions :
        \/ /\ Alone(s)
           /\ \E u \in Usernames, p \in Passwords : Login(s, u, p)
           /\ Track(FALSE)
        \/ Alone(s) /\ Logout(s) /\ Track(FALSE)
        \/ /\ Alone(s)
           /\ \E i \in DefaultForms({Today}) : SubmitClick(s, i)
           /\ Track(TRUE)
        \/ SubmitCount(s) /\ Track(FALSE)
        \/ SubmitUpdate(s) /\ Track(FALSE)
        \/ SubmitInsert(s) /\ Track(FALSE)
        \/ SubmitCashFlow(s) /\ Track(FALSE)
        \/ /\ Alone(s)
           /\ \E r \in expenses : UndoClick(s, r)
           /\ Track(TRUE)
        \/ UndoDeleteExpense(s) /\ Track(FALSE)
        \/ UndoDeleteCashFlow(s) /\ Track(FALSE)
        \/ UndoLookup(s) /\ Track(FALSE)
        \/ UndoUpdate(s) /\ Track(FALSE)
        \/ Finish(s) /\ Track(FALSE)

SpecLogin == Init /\ [][NextLogin]_vars

\* SpecForm: the first run of the application: one session fills in the
\* form over the whole category table and a wider range of prices and
\* quantities, and submits it.
WideForms ==
    FormInputs(Dates, FormMaxEighths, FormMaxQuantity, DOMAIN CATEGORY_OPTIONS)

NextForm ==
    \/ runs = 0 /\ (\E i \in WideForms : SubmitClick(1, i)) /\ Track(TRUE)
    \/ SubmitCount(1) /\ Track(FALSE)
    \/ SubmitUpdate(1) /\ Track(FALSE)
    \/ SubmitInsert(1) /\ Track(FALSE)
    \/ SubmitCashFlow(1) /\ Track(FALSE)
    \/ Finish(1) /\ Track(FALSE)

SpecForm == InitLoggedIn /\ [][NextForm]_vars

\* ================================================================= claims

SubmitEnded(s) == pc[s] = "done" /\ form_data[s] # Null
Quiescent == \A s \in Sessions : pc[s] \in {"idle", "done"}
Insufficient == <<"Insufficient balance in the selected account.">>

\* rows of cash_flow that carry this transaction id
CashFlowCount(id) ==
    BagCardinality(cash_flow) - BagCardinality(DeleteCashFlow(id))

\* C1 (SpecSeq, one run at a time): when a Submit has returned an error,
\* the three tables are what they were when its run started.
C1_SubmitErrorLeavesTables ==
    \A s \in Sessions :
        (SubmitEnded(s) /\ errors[s] # << >>) => Tables = pre

\* C2: after one successful Submit and two successful Undo runs of the
\* record it created (three runs in all, no store failure), the amount has
\* been given back once: every balance is the initial one.
C2_UndoTwiceRestoresOnce ==
    \A s, t \in Sessions :
        (/\ s # t
         /\ runs = 3
         /\ faults = 0
         /\ Undone(s)
         /\ Undone(t)
         /\ row[s].id = row[t].id)
        => accounts = InitAccounts

\* C3: when the first two runs are two Submits of valid forms with the same
\* billing date and enough balance for both, and no store call failed, both
\* are saved and their ids are the numbers 1 and 2 of that date.
C3_ConcurrentIdsDistinct ==
    \A s, t \in Sessions :
        (/\ s # t
         /\ runs = 2
         /\ faults = 0
         /\ SubmitEnded(s)
         /\ SubmitEnded(t)
         /\ Validate(form_data[s]) = << >>
         /\ Validate(form_data[t]) = << >>
         /\ form_data[s].billing_date = form_data[t].billing_date
         /\ errors[s] # Insufficient
         /\ errors[t] # Insufficient)
        => /\ Saved(s)
           /\ Saved(t)
           /\ {txn_id[s], txn_id[t]} =
                  {TxnId(form_data[s].billing_date, 0),
                   TxnId(form_data[s].billing_date, 1)}

\* C4: when the first two runs are two Submits on the same account and both
\* are saved, the stored balance is the initial balance less both amounts.
C4_NoLostUpdate ==
    \A s, t \in Sessions :
        (/\ s # t
         /\ runs = 2
         /\ Saved(s)
         /\ Saved(t)
         /\ form_data[s].selected_account.id = form_data[t].selected_account.id)
        => LET a == form_data[s].selected_account.id
           IN  accounts[a].balance =
                   InitAccounts[a].balance - form_data[s].amount
                                           - form_data[t].amount

C6_BalanceNonNegative == \A a \in AccountIds : accounts[a].balance >= 0

C6_Witness ==
    \E s, t \in Sessions :
        /\ SubmitEnded(s)
        /\ errors[s] = Insufficient
        /\ submitted[t]
        /\ accounts[form_data[s].selected_account.id].balance = 0

\* C7: whenever no run is in progress, every expense row has exactly one
\* Debit cash-flow row with its id, and every Debit cash-flow row has
\* exactly one expense row with its transaction id.
C7_RecordsPaired ==
    Quiescent =>
        /\ \A e \in expenses : CashFlowCount(e.id) = 1
        /\ \A c \in BagToSet(cash_flow) :
              /\ c.type = "Debit"
              /\ Cardinality({e \in expenses : e.id = c.transaction_id}) = 1
              /\ CashFlowCount(c.transaction_id) = 1

\* C8: a Submit whose amount exceeds the balance stored for the account
\* when submit_expense checks the balance (the count query having answered)
\* returns the insufficient-balance error.
C8_InsufficientRejected ==
    [][\A s \in Sessions :
          (/\ pc[s] = "count"
           /\ pc'[s] # "count"
           /\ faults' = faults
           /\ form_data[s].amount >
                  accounts[form_data[s].selected_account.id].balance)
          => errors'[s] = Insufficient]_vars

\* The order of the rules as the specification gives them.
FirstViolation(f) ==
    IF f.description = "" THEN "description"
    ELSE IF ~(f.price > 0) THEN "price"
    ELSE IF ~(f.quantity >= 1) THEN "quantity"
    ELSE IF f.subcategory \notin CATEGORY_OPTIONS[f.main_category]
         THEN "category"
    ELSE "none"

RuleMessage(rule) ==
    CASE rule = "description" -> "Description is required."
      [] rule = "price" -> "Price must be greater than 0."
      [] rule = "quantity" -> "Quantity must be at least 1."
      [] rule = "category" -> "Category and subcategory do not pair."

RoundHalfUp(x) == (x + 5) \div 10

\* C10 (SpecForm): the amount of every expense row is price * quantity
\* rounded half-up to hundredths.
C10_AmountHalfUp ==
    \A e \in expenses : e.amount = RoundHalfUp(e.price * e.quantity)

\* C11: a Submit whose candidate id is already the id of a stored expense
\* row does not fail on the collision: the step in which its insert meets
\* that row, no store call failing, returns no error.
C11_CollisionRecovered ==
    [][\A s \in Sessions :
          (/\ pc[s] = "insert"
           /\ pc'[s] # "insert"
           /\ DuplicateId(txn_id[s])
           /\ faults' = faults)
          => errors'[s] = << >>]_vars

UndoEnded(s) == pc[s] = "done" /\ row[s] # Null

\* C12 (SpecAdmin): when an Undo ends with the account-not-found error
\* because the account that the record's Submit debited has no row any more,
\* the three tables are what they were when its run started: no row of the
\* transaction was deleted and no balance changed.
C12_AccountNotFoundNoResidue ==
    \A s \in Sessions :
        (/\ UndoEnded(s)
         /\ notice[s] = "Account not found"
         /\ debited[row[s].id] \notin DOMAIN accounts)
        => Tables = pre

\* C14 (SpecAdmin): when an Undo has run to its end, no store call having
\* failed, and the account that the record's Submit debited still has a
\* row, whatever its name is now, the balance of that account is the one at
\* the start of the run plus the record's amount and table accounts is
\* otherwise what it was.
C14_UndoCreditsDebitedAccount ==
    \A s \in Sessions :
        (/\ UndoEnded(s)
         /\ faults = 0
         /\ debited[row[s].id] \in DOMAIN accounts)
        => accounts =
              [pre.accounts EXCEPT
                  ![debited[row[s].id]].balance = @ + row[s].amount]

\* C13 (SpecSeq): an Undo whose two deletes succeeded and whose account
\* was found (acc is bound), so that only its balance update can have
\* failed, does not end reported as failed.
C13_FailedRestoreNotReportedFailed ==
    \A s \in Sessions :
        (UndoEnded(s) /\ acc[s] # Null) => notice[s] # "Undo failed"

\* the Debit rows of a cash-flow table that carry this transaction id, and
\* how many rows of the table carry it
DebitsOf(cf, id) ==
    {c \in BagToSet(cf) : c.transaction_id = id /\ c.type = "Debit"}

CopiesOf(cf, id) ==
    LET rows == {c \in BagToSet(cf) : c.transaction_id = id}
        RECURSIVE Sum(_)
        Sum(S) == IF S = {} THEN 0
                  ELSE LET c == CHOOSE c \in S : TRUE
                       IN  CopiesIn(c, cf) + Sum(S \ {c})
    IN  Sum(rows)

\* what holds of the tables exp and cf when session s has returned success
SubmitPostcondition(s, exp, cf) ==
    /\ Cardinality({e \in exp : e.id = txn_id[s]}) = 1
    /\ CopiesOf(cf, txn_id[s]) = 1
    /\ \E c \in DebitsOf(cf, txn_id[s]) :
          /\ \A e \in exp : e.id = txn_id[s] => c.transaction_amount = e.amount
          /\ c.updated_balance = new_balance[s]

\* C15: in the step in which a Submit returns success there is exactly one
\* expense row with its id and exactly one cash-flow row with its id, a
\* Debit of the row's amount whose updated_balance is the balance that this
\* Submit stored.
C15_SavedPostcondition ==
    [][\A s \in Sessions :
          (~Saved(s) /\ Saved(s)')
          => SubmitPostcondition(s, expenses', cash_flow')]_vars

\* C16: the writes of one Submit happen only in the order accounts,
\* expenses, cash_flow: the tables that a run of submit_expense has written
\* so far are always a prefix of that list, so that the expense row is
\* inserted only after the run's balance update succeeded and the cash-flow
\* row only after its expense insert succeeded.
C16_WritesInOrder ==
    \A s \in Sessions :
        writes[s] \in {<< >>,
                       <<"accounts">>,
                       <<"accounts", "expenses">>,
                       <<"accounts", "expenses", "cash_flow">>}

C16_Witness ==
    \E s, t \in Sessions :
        /\ Saved(s)
        /\ writes[s] = <<"accounts", "expenses", "cash_flow">>
        /\ SubmitEnded(t)
        /\ errors[t] # << >>
        /\ writes[t] = <<"accounts">>

\* C17 (SpecLogin): in every session at most one Submit has returned
\* success, and once one has, the flag submitted of the session is set,
\* also after the session failed Submits before or logged out and in again.
C17_OneSavedSubmit ==
    \A s \in Sessions :
        /\ submits[s].saved <= 1
        /\ submits[s].saved = 1 => submitted[s]

C17_Witness ==
    \E s \in Sessions :
        /\ submits[s].started = 2
        /\ submits[s].saved = 1
        /\ submitted[s]
        /\ pc[s] = "idle"
        /\ ~logged_in[s]

\* C18 (SpecLogin): a session that is not logged in takes no step but those
\* of a login attempt, and no table changes in a step unless the session
\* taking it is logged in; the flag logged_in is set only by a login attempt
\* with a known username and the password whose hash is stored for it, and
\* cleared only by a step between runs that touches no table (Logout).
C18_LoginGate ==
    [][/\ \A s \in Sessions :
             /\ (~logged_in[s] /\ pc'[s] # pc[s])
                => (credentials[s] # Null \/ credentials'[s] # Null)
             /\ (~logged_in[s] /\ logged_in'[s])
                => /\ credentials'[s] # Null
                   /\ credentials'[s].username \in DOMAIN USER_CREDENTIALS
                   /\ USER_CREDENTIALS[credentials'[s].username]
                          = hash_password(credentials'[s].password)
             /\ (logged_in[s] /\ ~logged_in'[s])
                => (pc[s] = "idle" /\ pc'[s] = "idle" /\ tables' = tables)
       /\ tables' # tables
          => \E s \in Sessions : logged_in[s] /\ pc'[s] # pc[s]]_vars

C18_Witness ==
    \E s, t \in Sessions :
        /\ logged_in[s]
        /\ submitted[s]
        /\ ~logged_in[t]
        /\ pc[t] = "done"
        /\ notice[t] = "Invalid username or password"
        /\ credentials[t].username = "nadin"

====
